---- MODULE Spec2Model ----
(***************************************************************************)
(* Model of the face-overlay pipeline: PositionTracker (exponential        *)
(* smoothing of feature anchors), OverlayManager (compositing of a sprite  *)
(* onto a frame) and VideoProcessor.process_frame (per-frame flow).        *)
(*                                                                         *)
(* Python floats are IEEE-754 doubles.  Every float expression of the      *)
(* source is evaluated here in exact binary fixed point (unit 2^-72, held  *)
(* in base-2^18 limbs because TLC integers are 32 bit) and rounded to 53   *)
(* significant bits, ties to even, after each operation, as the hardware   *)
(* does.                                                                   *)
(***************************************************************************)
EXTENDS Integers, Naturals, Sequences, FiniteSets, TLC

VARIABLES
    prev_positions,   \* PositionTracker.prev_positions
    new_positions,    \* argument of the last PositionTracker.update call
    old_positions,    \* prev_positions as it was when that call began
    smoothed,         \* value returned by that call
    repeats,          \* how many calls in a row repeated the previous argument (capped)
    frame,            \* the frame buffer that apply_overlay writes into
    frame_before,     \* the frame buffer as it was when the last apply_overlay call began
    fresh,            \* TRUE while nothing has been drawn on the frame since it was read
    overlay_call,     \* arguments of the last apply_overlay call
    error_shown,      \* TRUE when handle_error reported an exception of that call
    config,           \* FaceOverlayApp.config, an OverlayConfig
    overlays,         \* OverlayManager.overlays
    show_status,      \* OverlayManager.show_status
    sliders,          \* UIManager.sliders: the value of each Tk scale
    files,            \* the sprite files of the selected person that cv2.imread can read
    current_name,     \* OverlayManager._current_name, "" while the attribute does not exist
    last_op,          \* the last two calls of load_overlays and toggle_feature, the
                      \* arguments of each and the sprites it found
    detections,       \* results.detections of the last process_frame call
    frame_start,      \* prev_positions as it was when that call began
    processed,        \* per detection of that call: raw anchors and returned positions
    process_result,   \* what that call returned: the success flag and the apply_overlay
                      \* calls made on the resized frame, in order, with the sprites
                      \* and the show flags that the call found
    angle_call,       \* argument and outcome of the last calculate_angle call
    display_on,       \* FaceOverlayApp.display_on
    vid,              \* VideoProcessor.vid: "None" or "capture", an opened cv2.VideoCapture
    camera_mod,       \* FaceOverlayApp.camera_mod
    selected_name,    \* FaceOverlayApp.selected_name
    pending,          \* the _update_frame callbacks that root.after holds and has not run
    stream_call       \* the last UI event or timer callback and what it did

trackerVars == <<prev_positions, new_positions, old_positions, smoothed, repeats>>
overlayVars == <<frame, frame_before, fresh, overlay_call, error_shown>>
assetVars == <<config, overlays, show_status, sliders, files, current_name, last_op>>
processVars == <<detections, frame_start, processed, process_result>>
angleVars == <<angle_call>>
streamVars == <<display_on, vid, camera_mod, selected_name, pending, stream_call>>
vars == <<trackerVars, overlayVars, assetVars, processVars, angleVars, streamVars>>

(***************************************************************************)
(* Bounds of the model.                                                    *)
(***************************************************************************)
MaxCoord == 3      \* raw coordinates range over -MaxCoord..MaxCoord
MaxRepeats == 3    \* cap of the repeats counter
FrameH == 3        \* rows of the model's frame buffer
FrameW == 4        \* columns of the model's frame buffer
MaxSprite == 3     \* sprites are 1..MaxSprite pixels high and wide
Margin == 2        \* anchors range from Margin pixels before the frame to Margin after
MaxFaces == 2      \* detections in one frame
MaxMissing == 1    \* sprite files that are missing or unreadable
MaxEye == 1        \* eye coordinates handed to calculate_angle range over -MaxEye..MaxEye
MaxPending == 2    \* _update_frame callbacks waiting in the Tk event loop

(***************************************************************************)
(* IEEE-754 double arithmetic.                                             *)
(* A magnitude is a tuple of NumLimbs limbs, least significant first, in   *)
(* base LimbBase; its value is sum(limb[i] * LimbBase^(i-1)) * 2^-72, so   *)
(* limbs 1..FracLimbs hold the fraction and the rest the integer part.     *)
(***************************************************************************)
LimbBase == 262144
NumLimbs == 5
FracLimbs == 4
Limbs == 1..NumLimbs

Abs(n) == IF n < 0 THEN 0 - n ELSE n

\* n / d with the sign of n, for d > 0 dividing n
TruncQuot(n, d) == IF n < 0 THEN 0 - ((0 - n) \div d) ELSE n \div d

RECURSIVE Pow2(_)
Pow2(k) ==
    IF k >= 8 THEN 256 * Pow2(k - 8)
    ELSE IF k >= 2 THEN 4 * Pow2(k - 2)
    ELSE IF k = 1 THEN 2 ELSE 1

\* Propagate carries (and borrows) so that every limb is in 0..LimbBase-1.
RECURSIVE CarryFrom(_, _, _)
CarryLimb(a, i, t) == <<t % LimbBase>> \o CarryFrom(a, i + 1, t \div LimbBase)

CarryFrom(a, i, c) == IF i > NumLimbs THEN <<>> ELSE CarryLimb(a, i, a[i] + c)

Carry(a) == CarryFrom(a, 1, 0)

ZeroMag == [i \in Limbs |-> 0]

MagOfNat(n) == Carry([i \in Limbs |-> IF i = FracLimbs + 1 THEN n ELSE 0])

MagAdd(a, b) == Carry([i \in Limbs |-> a[i] + b[i]])

\* a - b for a >= b
MagSub(a, b) == Carry([i \in Limbs |-> a[i] - b[i]])

\* n * a for a natural n < 2^13
MagMulNat(n, a) == Carry([i \in Limbs |-> n * a[i]])

RECURSIVE MagLessFrom(_, _, _)
MagLessFrom(a, b, i) ==
    IF i = 0 THEN FALSE
    ELSE IF a[i] # b[i] THEN a[i] < b[i]
    ELSE MagLessFrom(a, b, i - 1)

MagLess(a, b) == MagLessFrom(a, b, NumLimbs)

RECURSIVE NatBitLen(_)
NatBitLen(n) ==
    IF n = 0 THEN 0
    ELSE IF n >= 256 THEN 8 + NatBitLen(n \div 256)
    ELSE IF n >= 4 THEN 2 + NatBitLen(n \div 4)
    ELSE 1 + NatBitLen(n \div 2)

RECURSIVE TopLimb(_, _)
TopLimb(a, i) == IF i = 0 THEN 0 ELSE IF a[i] # 0 THEN i ELSE TopLimb(a, i - 1)

LimbBitLen(a, t) == IF t = 0 THEN 0 ELSE 18 * (t - 1) + NatBitLen(a[t])

MagBitLen(a) == LimbBitLen(a, TopLimb(a, NumLimbs))

LowLimbsZero(a, s) == \A i \in 1..(s - 1) : a[i] = 0

\* Round a magnitude to 53 significant bits, ties to even.  s is the limb
\* holding the last kept bit, unit the weight of that bit in the limb; when
\* unit = 1 the first dropped bit is the top bit of limb s - 1.
RoundAtBit(a, s, unit) ==
    LET rem == a[s] % unit
        kept == [i \in Limbs |-> IF i < s THEN 0
                                 ELSE IF i = s THEN a[i] - rem
                                 ELSE a[i]]
        odd == (a[s] \div unit) % 2 = 1
        above == IF unit = 1
                 THEN \/ a[s - 1] > 131072
                      \/ a[s - 1] = 131072 /\ ~LowLimbsZero(a, s - 1)
                 ELSE \/ 2 * rem > unit
                      \/ 2 * rem = unit /\ ~LowLimbsZero(a, s)
        tie == IF unit = 1
               THEN a[s - 1] = 131072 /\ LowLimbsZero(a, s - 1)
               ELSE 2 * rem = unit /\ LowLimbsZero(a, s)
    IN  IF above \/ (tie /\ odd)
        THEN Carry([kept EXCEPT ![s] = @ + unit])
        ELSE kept

\* len is the bit length of a; len - 53 low bits are dropped
RoundAtLen(a, len) ==
    IF len <= 53 THEN a
    ELSE RoundAtBit(a, ((len - 53) \div 18) + 1, Pow2((len - 53) % 18))

RoundDouble(a) == RoundAtLen(a, MagBitLen(a))

\* A double: sign and magnitude.
Dbl(n, m) == [neg |-> n, mag |-> m]

FloatOfInt(n) == Dbl(n < 0, MagOfNat(Abs(n)))

FloatNeg(x) == Dbl(~x.neg, x.mag)

\* float + float
FloatAdd(x, y) ==
    IF x.neg = y.neg THEN Dbl(x.neg, RoundDouble(MagAdd(x.mag, y.mag)))
    ELSE IF x.mag = y.mag THEN Dbl(FALSE, ZeroMag)
    ELSE IF MagLess(x.mag, y.mag) THEN Dbl(y.neg, RoundDouble(MagSub(y.mag, x.mag)))
    ELSE Dbl(x.neg, RoundDouble(MagSub(x.mag, y.mag)))

\* float - float
FloatSub(x, y) == FloatAdd(x, FloatNeg(y))

\* int * float, for |n| < 2^13
IntTimesFloat(n, y) ==
    Dbl((n < 0) # y.neg, RoundDouble(MagMulNat(Abs(n), y.mag)))

\* a < b as floats
FloatLess(x, y) ==
    IF x.mag = ZeroMag /\ y.mag = ZeroMag THEN FALSE
    ELSE IF x.neg # y.neg THEN x.neg
    ELSE IF x.neg THEN MagLess(y.mag, x.mag)
    ELSE MagLess(x.mag, y.mag)

\* max(a, b) of Python: b when b > a, otherwise a
FloatMax(x, y) == IF FloatLess(x, y) THEN y ELSE x

\* n / 2^11 as a float, n a natural below 2^11
FloatOf2048ths(n) == Dbl(FALSE, Carry(<<0, 0, 0, 128 * n, 0>>))

\* The low bit of a magnitude set when bits below it were lost, so that
\* rounding sees that the value is not exact.
WithSticky(a, lost) == IF lost /\ a[1] % 2 = 0 THEN [a EXCEPT ![1] = @ + 1] ELSE a

\* Long division of a magnitude by a natural d < 2^12, from the top limb:
\* q is the quotient so far, i the limb to divide next, r the remainder.
RECURSIVE MagDivFrom(_, _, _, _, _)
MagDivFrom(a, d, i, r, q) ==
    IF i = 0 THEN WithSticky(q, r # 0)
    ELSE MagDivFrom(a, d, i - 1, (r * LimbBase + a[i]) % d,
                    [q EXCEPT ![i] = (r * LimbBase + a[i]) \div d])

\* float / int, for a divisor 0 < d < 2^12 and a quotient above 2^-17
FloatDivNat(x, d) == Dbl(x.neg, RoundDouble(MagDivFrom(x.mag, d, NumLimbs, 0, ZeroMag)))

\* The digits of a magnitude in base 512, least significant first, from 0.
Digit(a, k) == IF k % 2 = 0 THEN a[(k \div 2) + 1] % 512 ELSE a[(k \div 2) + 1] \div 512

\* column j of the product before carries: the limbs of a times the base-512
\* digits of b of one parity (0: the low halves of b's limbs, 1: the high
\* halves), a_i * b_(j-i) summed over the limbs i of a
RECURSIVE ProductColumn(_, _, _, _, _)
ProductColumn(a, b, j, i, parity) ==
    IF i = 0 THEN 0
    ELSE (IF j - i >= 0 /\ j - i < NumLimbs
          THEN a[i] * Digit(b, 2 * (j - i) + parity) ELSE 0)
         + ProductColumn(a, b, j, i - 1, parity)

\* carries of the product columns p; the result is the list of limbs from j up
RECURSIVE ProductLimbs(_, _, _)
ProductLimbsFrom(p, j, v) == <<v % LimbBase>> \o ProductLimbs(p, j + 1, v \div LimbBase)

ProductLimbs(p, j, c) ==
    IF j > 2 * NumLimbs THEN <<>> ELSE ProductLimbsFrom(p, j, p[j] + c)

\* the product of two magnitudes in 2 * NumLimbs limbs: the low-half digits
\* of b plus 512 times the high-half digits of b
ProductWithHigh(a, b, high) ==
    ProductLimbs([j \in 1..(2 * NumLimbs) |->
                     ProductColumn(a, b, j, NumLimbs, 0) + 512 * high[j]], 1, 0)

ProductDigits(a, b) ==
    ProductWithHigh(a, b,
        ProductLimbs([j \in 1..(2 * NumLimbs) |-> ProductColumn(a, b, j, NumLimbs, 1)], 1, 0))

\* The product of two magnitudes has unit 2^-144; its limbs 5.. are the
\* magnitude in unit 2^-72 and the limbs below are kept as a sticky bit.
MagOfProduct(d) ==
    WithSticky(<<d[5], d[6], d[7], d[8], d[9]>>, \E k \in 1..4 : d[k] # 0)

\* float * float, for a product between 2^-17 and 2^18
FloatMul(x, y) ==
    Dbl(x.neg # y.neg, RoundDouble(MagOfProduct(ProductDigits(x.mag, y.mag))))

\* int(float): truncation toward zero, for |x| < 2^18
IntOfFloat(x) ==
    IF x.neg THEN 0 - x.mag[FracLimbs + 1] ELSE x.mag[FracLimbs + 1]

(***************************************************************************)
(* PositionTracker                                                         *)
(***************************************************************************)
\* self.smoothing_factor = 0.3, i.e. the double 0x1.3333333333333p-2
smoothing_factor == Dbl(FALSE, <<0, 209715, 52428, 78643, 0>>)

\* (1 - self.smoothing_factor)
one_minus_smoothing_factor == FloatSub(FloatOfInt(1), smoothing_factor)

\* SmoothAxis with the weight of the new sample left out:
\* int(prev * (1 - smoothing_factor) + new)
SmoothAxisUnweighted(prev, new) ==
    IntOfFloat(FloatAdd(
        IntTimesFloat(prev, one_minus_smoothing_factor),
        FloatOfInt(new)))

\* SmoothAxis with the sign of the correction slipped:
\* int(prev * (1 + smoothing_factor) - new * smoothing_factor)
SmoothAxisAway(prev, new) ==
    IntOfFloat(FloatSub(
        IntTimesFloat(prev, FloatAdd(FloatOfInt(1), smoothing_factor)),
        IntTimesFloat(new, smoothing_factor)))

\* int(prev * (1 - smoothing_factor) + new * smoothing_factor)
SmoothAxis(prev, new) ==
    IntOfFloat(FloatAdd(
        IntTimesFloat(prev, one_minus_smoothing_factor),
        IntTimesFloat(new, smoothing_factor)))

\* a dict is a function whose domain is its key set
EmptyMap == [f \in {} |-> <<0, 0>>]

\* SmoothedPositions without the first-seen branch: a key with no previous
\* value is smoothed against (0, 0), as prev_positions.get(feature, (0, 0))
SmoothedPositionsNoBootstrap(prev, new) ==
    [f \in DOMAIN new |->
        LET pp == IF f \in DOMAIN prev THEN prev[f] ELSE <<0, 0>>
        IN  <<SmoothAxis(pp[1], new[f][1]), SmoothAxis(pp[2], new[f][2])>>]

\* update, lines 28-38: the map built by the loop
SmoothedPositions(prev, new) ==
    [f \in DOMAIN new |->
        IF f \notin DOMAIN prev
        THEN new[f]
        ELSE <<SmoothAxis(prev[f][1], new[f][1]),
               SmoothAxis(prev[f][2], new[f][2])>>]

\* StoredPositions merging instead of replacing, as prev_positions.update(...)
StoredPositionsMerged(prev, sm) ==
    [f \in DOMAIN prev \cup DOMAIN sm |-> IF f \in DOMAIN sm THEN sm[f] ELSE prev[f]]

\* update, line 40: self.prev_positions = smoothed_positions
StoredPositions(prev, sm) == sm

\* The raw maps passed to update: any subset of the two keys; right_eye at
\* any point of the anti-diagonal, so that both axes see both signs, and
\* left_eye at one of two points.
TrackerKeys == {"right_eye", "left_eye"}
RawPoints(f) ==
    IF f = "right_eye"
    THEN {<<c, 0 - c>> : c \in (0 - MaxCoord)..MaxCoord}
    ELSE {<<0, 1>>, <<MaxCoord, MaxCoord>>}
RawMaps ==
    {m \in UNION {[K -> UNION {RawPoints(f) : f \in K}] : K \in SUBSET TrackerKeys} :
        \A f \in DOMAIN m : m[f] \in RawPoints(f)}

\* the tracker and the record of its last call, as one value
TrackerNow ==
    [prev |-> prev_positions, new |-> new_positions, old |-> old_positions,
     sm |-> smoothed, rep |-> repeats]

\* update, lines 28-41, on the tracker t, given the map sm built by the loop
TrackerStore(t, raw, sm) ==
    [prev |-> StoredPositions(t.prev, sm), new |-> raw, old |-> t.prev, sm |-> sm,
     rep |-> IF raw = t.new
             THEN (IF t.rep < MaxRepeats THEN t.rep + 1 ELSE t.rep)
             ELSE 0]

TrackerUpdate(t, raw) == TrackerStore(t, raw, SmoothedPositions(t.prev, raw))

SetTracker(t) ==
    /\ prev_positions' = t.prev
    /\ new_positions' = t.new
    /\ old_positions' = t.old
    /\ smoothed' = t.sm
    /\ repeats' = t.rep

Update(raw) == SetTracker(TrackerUpdate(TrackerNow, raw))

UpdateCall ==
    /\ \E raw \in RawMaps : Update(raw)
    /\ UNCHANGED <<overlayVars, assetVars, processVars, angleVars, streamVars>>

InitTracker ==
    /\ prev_positions = EmptyMap
    /\ new_positions = EmptyMap
    /\ old_positions = EmptyMap
    /\ smoothed = EmptyMap
    /\ repeats = 0

(***************************************************************************)
(* OverlayManager.apply_overlay                                            *)
(*                                                                         *)
(* An image is a record [h, w, ch, px]: px[i][j] is the pixel of row i and *)
(* column j, a tuple of ch channel values.  cv2.warpAffine and cv2.resize  *)
(* resample the pixel values; what they compute is not part of the         *)
(* repository, so a resampled pixel is the value Resampled, which stands   *)
(* for any value.  The sprites of the model have alpha 0 or 255, for which *)
(* the float blend is exact.                                               *)
(***************************************************************************)
Rows == 0..(FrameH - 1)
Cols == 0..(FrameW - 1)
Resampled == <<0 - 1, 0 - 1, 0 - 1>>

\* the frame as read from the capture: every pixel differs from every other
\* and from every sprite pixel
CapturedFrame == [y \in Rows |-> [x \in Cols |-> <<10 * y + x, 10 * y + x + 40, 10 * y + x + 80>>]]

\* the sprites: "rgb" has three channels, "opaque" a fourth channel of 255
\* throughout, "holes" a fourth channel that is 0 where i + j is odd
Sprite(h, w, kind) ==
    [h |-> h, w |-> w, ch |-> IF kind = "rgb" THEN 3 ELSE 4,
     px |-> [i \in 0..(h - 1) |-> [j \in 0..(w - 1) |->
        LET v == 100 + 10 * i + j
        IN  IF kind = "rgb" THEN <<v, v + 40, v + 80>>
            ELSE <<v, v + 40, v + 80,
                   IF kind = "holes" /\ (i + j) % 2 = 1 THEN 0 ELSE 255>>]]]
Sprites == {Sprite(h, w, k) : h \in 1..MaxSprite, w \in 1..MaxSprite, k \in {"rgb", "opaque", "holes"}}

\* the scale and angle arguments: scale is a float, angle is in degrees
Scales == {Dbl(FALSE, <<0, 0, 0, 131072, 0>>), FloatOfInt(1), FloatOfInt(2)}
Angles == {0, 90}

\* apply_overlay, lines 97-101: alpha plane (in 255ths) and colour planes
AlphaOf(img, i, j) == IF img.ch = 4 THEN img.px[i][j][4] ELSE 255
ColourOf(img, i, j) == <<img.px[i][j][1], img.px[i][j][2], img.px[i][j][3]>>

\* _rotate_image, lines 144-157, for the angles of the model: at 90 degrees
\* |cos| is 6.1e-17 and |sin| is 1, so new_w = int(h + w * 6.1e-17) = h and
\* new_h = w; the content is resampled by warpAffine
RotatedShape(h, w, angle) == IF angle = 90 THEN <<w, h>> ELSE <<h, w>>

\* _resize_image, lines 172-173: new_h, new_w = int(h * scale), int(w * scale)
ResizedShape(h, w, scale) ==
    <<IntOfFloat(IntTimesFloat(h, scale)), IntOfFloat(IntTimesFloat(w, scale))>>

\* apply_overlay, lines 103-106: the shape handed to _blend_overlay, and
\* whether the content was resampled on the way; cv2.resize copies the
\* image when the size does not change
TransformedShape(img, scale, angle) ==
    ResizedShape(RotatedShape(img.h, img.w, angle)[1],
                 RotatedShape(img.h, img.w, angle)[2], scale)

IsResampled(img, scale, angle) ==
    \/ angle # 0
    \/ TransformedShape(img, scale, angle) # <<img.h, img.w>>

\* _blend_overlay with the anchor taken as the top-left corner
DestRectTopLeft(h, w, x, y) == [y1 |-> y, y2 |-> y + h, x1 |-> x, x2 |-> x + w]

\* _blend_overlay, lines 200-201: int(y - h/2), int(y + h/2), int(x - w/2),
\* int(x + w/2); h/2 is exact and int() truncates toward zero
DestRect(h, w, x, y) ==
    [y1 |-> (IF 2 * y - h >= 0 THEN (2 * y - h) \div 2 ELSE 0 - ((h - 2 * y) \div 2)),
     y2 |-> (IF 2 * y + h >= 0 THEN (2 * y + h) \div 2 ELSE 0 - ((0 - 2 * y - h) \div 2)),
     x1 |-> (IF 2 * x - w >= 0 THEN (2 * x - w) \div 2 ELSE 0 - ((w - 2 * x) \div 2)),
     x2 |-> (IF 2 * x + w >= 0 THEN (2 * x + w) \div 2 ELSE 0 - ((0 - 2 * x - w) \div 2))]

\* _blend_overlay without the clipping of lines 203-204
ClipRectUnclipped(r) == r

\* _blend_overlay, lines 203-204: clip to the frame
ClipRect(r) ==
    [y1 |-> (IF r.y1 < 0 THEN 0 ELSE r.y1), y2 |-> (IF r.y2 > FrameH THEN FrameH ELSE r.y2),
     x1 |-> (IF r.x1 < 0 THEN 0 ELSE r.x1), x2 |-> (IF r.x2 > FrameW THEN FrameW ELSE r.x2)]

\* the crop taken from where the clipping cut the sprite, not from its origin
CropOffsetClipped(r, x, y, h, w) ==
    <<r.y1 - DestRect(h, w, x, y).y1, r.x1 - DestRect(h, w, x, y).x1>>

\* _blend_overlay, lines 209-210: overlay[:(y2-y1), :(x2-x1)] starts at the
\* origin of the sprite
CropOffset(r, x, y, h, w) == <<0, 0>>

\* the blend with the weights exchanged
BlendChannelInverted(ov, fr, a) == (fr * a + ov * (255 - a)) \div 255

\* _blend_overlay, lines 213-216, one channel of one pixel:
\* overlay * alpha + frame * (1 - alpha), alpha = a / 255
BlendChannel(ov, fr, a) == (ov * a + fr * (255 - a)) \div 255

\* _blend_overlay, lines 212-216, one pixel over the three channels
BlendPixel(img, resampled, i, j, fr) ==
    IF resampled THEN Resampled
    ELSE [c \in 1..3 |-> BlendChannel(ColourOf(img, i, j)[c], fr[c], AlphaOf(img, i, j))]

\* _blend_overlay, lines 206-216, for the clipped rectangle r and the crop
\* offset o; a crop smaller than the rectangle makes the assignment raise
\* before anything is written
BlendInto(fr, img, resampled, h, w, r, o) ==
    IF r.y1 >= r.y2 \/ r.x1 >= r.x2
    THEN [frame |-> fr, raised |-> FALSE]
    ELSE IF (r.y2 - r.y1) + o[1] > h \/ (r.x2 - r.x1) + o[2] > w
    THEN [frame |-> fr, raised |-> TRUE]
    ELSE [frame |-> [Y \in Rows |-> [X \in Cols |->
                        IF r.y1 <= Y /\ Y < r.y2 /\ r.x1 <= X /\ X < r.x2
                        THEN BlendPixel(img, resampled, (Y - r.y1) + o[1], (X - r.x1) + o[2], fr[Y][X])
                        ELSE fr[Y][X]]],
          raised |-> FALSE]

\* _blend_overlay, lines 181-217, for a transformed sprite of h by w pixels
BlendOverlay(fr, img, resampled, h, w, x, y) ==
    BlendInto(fr, img, resampled, h, w, ClipRect(DestRect(h, w, x, y)),
              CropOffset(ClipRect(DestRect(h, w, x, y)), x, y, h, w))

\* apply_overlay, lines 78-108; cv2.resize raises for an empty target size
ApplyOverlayResult(fr, x, y, img, scale, angle) ==
    IF TransformedShape(img, scale, angle)[1] = 0 \/ TransformedShape(img, scale, angle)[2] = 0
    THEN [frame |-> fr, raised |-> TRUE]
    ELSE BlendOverlay(fr, img, IsResampled(img, scale, angle),
                      TransformedShape(img, scale, angle)[1],
                      TransformedShape(img, scale, angle)[2], x, y)

Anchors == [x : (0 - Margin)..(FrameW + Margin), y : (0 - Margin)..(FrameH + Margin)]

NoCall == [made |-> FALSE]

\* video_processor.vid.read(): a new frame replaces the buffer; the record
\* of the last call starts afresh with it
ReadFrame ==
    /\ ~fresh
    /\ frame' = CapturedFrame
    /\ frame_before' = CapturedFrame
    /\ fresh' = TRUE
    /\ overlay_call' = NoCall
    /\ error_shown' = FALSE
    /\ UNCHANGED <<trackerVars, assetVars, processVars, angleVars, streamVars>>

\* one apply_overlay call on the frame as read
ApplyOverlay ==
    /\ fresh
    /\ \E p \in Anchors, img \in Sprites, scale \in Scales, angle \in Angles :
        /\ overlay_call' = [made |-> TRUE, x |-> p.x, y |-> p.y, img |-> img,
                            scale |-> scale, angle |-> angle]
        /\ frame_before' = frame
        /\ frame' = ApplyOverlayResult(frame, p.x, p.y, img, scale, angle).frame
        /\ error_shown' = ApplyOverlayResult(frame, p.x, p.y, img, scale, angle).raised
    /\ fresh' = FALSE
    /\ UNCHANGED <<trackerVars, assetVars, processVars, angleVars, streamVars>>

InitOverlay ==
    /\ frame = CapturedFrame
    /\ frame_before = CapturedFrame
    /\ fresh = TRUE
    /\ overlay_call = NoCall
    /\ error_shown = FALSE

(***************************************************************************)
(* OverlayConfig, the sprite cache and VideoProcessor.process_frame        *)
(***************************************************************************)
\* load_overlays, line 65: the features in the order they enter the dict
Features == <<"right_eye", "left_eye", "nose", "mouth">>
FeatureSet == {Features[i] : i \in 1..Len(Features)}

\* constants.py
DEFAULT_WIDTH == 640
DEFAULT_HEIGHT == 640
SCALE_RATIO == Dbl(FALSE, <<0, 157288, 104857, 26214, 1>>)    \* 1.1
BASE_SCALE_FACTOR == 400
SIZE_FACTOR == 100
DEFAULT_CONFIG ==
    [overlay_sizes |-> [f \in FeatureSet |-> 1],
     eye_adjustment_ratio |-> Dbl(FALSE, <<131072, 157286, 104857, 26214, 0>>),   \* 0.1
     eye_spacing_ratio |-> 0,
     offsets |-> [f \in FeatureSet |-> IF f = "nose" THEN <<0, 0 - 20>> ELSE <<0, 0>>]]

\* the float 0.1 of get_feature_scale
MIN_SCALE == Dbl(FALSE, <<131072, 157286, 104857, 26214, 0>>)

\* process_frame, lines 108-111: size of the resized frame
ResizedWidth == IntOfFloat(IntTimesFloat(DEFAULT_WIDTH, SCALE_RATIO))
ResizedHeight == IntOfFloat(IntTimesFloat(DEFAULT_HEIGHT, SCALE_RATIO))

\* An image read from a sprite file; cv2.imread gives None for a missing file.
None == [file |-> "None", flipped |-> FALSE]
SpriteFiles == {"right_eye", "left_eye", "right_eyebrows", "left_eyebrows", "nose", "mouth"}

\* create_overlay giving up on every feature when any file is missing
create_overlayAllOrNone(present, feature, is_eyebrows) ==
    IF (IF is_eyebrows THEN {"right_eyebrows", "left_eyebrows", "nose", "mouth"}
        ELSE {"right_eye", "left_eye", "nose", "mouth"}) \subseteq present
    THEN [file |-> feature, flipped |-> feature \in {"right_eye", "left_eye"}]
    ELSE None

\* OverlayFactory.create_overlay on a directory holding the files present:
\* cv2.flip raises on None, and handle_error turns that into None
create_overlay(present, feature, is_eyebrows) ==
    IF feature \in {"right_eye", "left_eye"}
    THEN LET side == IF feature = "right_eye" THEN "right" ELSE "left"
             path == IF is_eyebrows
                     THEN (IF side = "right" THEN "right_eyebrows" ELSE "left_eyebrows")
                     ELSE (IF side = "right" THEN "right_eye" ELSE "left_eye")
         IN  IF path \in present THEN [file |-> path, flipped |-> TRUE] ELSE None
    ELSE IF feature \in present THEN [file |-> feature, flipped |-> FALSE] ELSE None

\* get_feature_scale without the floor of 0.1
get_feature_scaleUnfloored(cfg, feature, base_scale) ==
    FloatMul(base_scale, FloatDivNat(FloatOfInt(cfg.overlay_sizes[feature]), SIZE_FACTOR))

\* OverlayConfig.get_feature_scale
get_feature_scale(cfg, feature, base_scale) ==
    FloatMax(MIN_SCALE,
             FloatMul(base_scale, FloatDivNat(FloatOfInt(cfg.overlay_sizes[feature]), SIZE_FACTOR)))

\* PositionTracker.calculate_angle.  np.degrees(np.arctan2(dy, dx)) depends
\* only on the direction of (dx, dy); the angle is kept as that direction in
\* lowest terms, <<dy, dx>>, and <<0, 1>> is 0 degrees (also arctan2(0, 0)).
RECURSIVE Gcd(_, _)
Gcd(a, b) == IF b = 0 THEN a ELSE Gcd(b, a % b)

Direction(dy, dx) ==
    IF dy = 0 /\ dx = 0 THEN <<0, 1>>
    ELSE <<TruncQuot(dy, Gcd(Abs(dy), Abs(dx))), TruncQuot(dx, Gcd(Abs(dy), Abs(dx)))>>

\* calculate_angle with arctan2 taken of the width of the eye line only
calculate_angleFolded(positions) ==
    Direction(positions["left_eye"][2] - positions["right_eye"][2],
              Abs(positions["left_eye"][1] - positions["right_eye"][1]))

\* calculate_angle with the arguments of arctan2 exchanged
calculate_angleExchanged(positions) ==
    Direction(positions["left_eye"][1] - positions["right_eye"][1],
              positions["left_eye"][2] - positions["right_eye"][2])

calculate_angle(positions) ==
    Direction(positions["left_eye"][2] - positions["right_eye"][2],
              positions["left_eye"][1] - positions["right_eye"][1])

\* ApplicationUtils.handle_error around a body: an exception raised by the
\* body is printed, logged and shown in a message box, and the wrapper then
\* falls off its end, so the caller receives None and no exception.
handle_error(outcome) ==
    IF outcome.raised # "no"
    THEN [raised |-> "no", none |-> TRUE, value |-> <<>>, shown |-> outcome.raised]
    ELSE outcome

\* the body of calculate_angle: positions['left_eye'] raises KeyError
calculate_angle_body(positions) ==
    IF {"left_eye", "right_eye"} \subseteq DOMAIN positions
    THEN [raised |-> "no", none |-> FALSE, value |-> calculate_angle(positions), shown |-> "no"]
    ELSE [raised |-> "KeyError", none |-> FALSE, value |-> <<>>, shown |-> "no"]

\* what a caller of the decorated calculate_angle gets
calculate_angle_call(positions) == handle_error(calculate_angle_body(positions))

EyeMaps ==
    UNION {[K -> ((0 - MaxEye)..MaxEye) \X ((0 - MaxEye)..MaxEye)] :
              K \in SUBSET {"left_eye", "right_eye"}}

\* PositionTracker.calculate_angle called from outside the pipeline
CalculateAngle ==
    /\ \E positions \in EyeMaps :
        angle_call' = [made |-> TRUE, positions |-> positions,
                       outcome |-> calculate_angle_call(positions)]
    /\ UNCHANGED <<trackerVars, overlayVars, assetVars, processVars, streamVars>>

InitAngle == angle_call = [made |-> FALSE]

\* A detection: relative bounding box and the four relative keypoints in
\* the order right_eye, left_eye, nose, mouth; every relative value is a
\* float n / 2^11, kept as n.
Keypoint(x, y) == [x |-> x, y |-> y]
FaceNear ==
    [box |-> [width |-> 436, height |-> 960],
     keypoints |-> <<Keypoint(640, 600), Keypoint(896, 600), Keypoint(768, 800), Keypoint(768, 960)>>]
FaceWide ==
    [box |-> [width |-> 1300, height |-> 960],
     keypoints |-> <<Keypoint(643, 600), Keypoint(896, 597), Keypoint(768, 800), Keypoint(768, 960)>>]
Faces == {FaceNear, FaceWide}
DetectionLists == UNION {[1..n -> Faces] : n \in 0..MaxFaces}

\* _calculate_positions with the spacing subtracted for both eyes
RawPositionsSameShift(cfg, keypoints, w, h, bbox_height) ==
    LET right_eye == keypoints[1]
        left_eye == keypoints[2]
        nose == keypoints[3]
        mouth == keypoints[4]
        eye_spacing == FloatOfInt(cfg.eye_spacing_ratio)
        eye_y_adjust == FloatMul(bbox_height, cfg.eye_adjustment_ratio)
        X(k) == IntTimesFloat(w, FloatOf2048ths(k.x))
        Y(k) == IntTimesFloat(h, FloatOf2048ths(k.y))
    IN  [f \in FeatureSet |->
            IF f = "right_eye"
            THEN <<IntOfFloat(FloatSub(X(right_eye), eye_spacing)) + cfg.offsets["right_eye"][1],
                   IntOfFloat(FloatSub(Y(right_eye), eye_y_adjust)) - cfg.offsets["right_eye"][2]>>
            ELSE IF f = "left_eye"
            THEN <<IntOfFloat(FloatSub(X(left_eye), eye_spacing)) + cfg.offsets["left_eye"][1],
                   IntOfFloat(FloatSub(Y(left_eye), eye_y_adjust)) - cfg.offsets["left_eye"][2]>>
            ELSE IF f = "nose"
            THEN <<IntOfFloat(X(nose)) + cfg.offsets["nose"][1],
                   IntOfFloat(Y(nose)) - cfg.offsets["nose"][2]>>
            ELSE <<IntOfFloat(X(mouth)) + cfg.offsets["mouth"][1],
                   IntOfFloat(Y(mouth)) - cfg.offsets["mouth"][2]>>]

\* _calculate_positions tracking an anchor for the eyebrows as well
RawPositionsWithEyebrows(cfg, keypoints, w, h, bbox_height) ==
    LET right_eye == keypoints[1]
        left_eye == keypoints[2]
        nose == keypoints[3]
        mouth == keypoints[4]
        eye_spacing == FloatOfInt(cfg.eye_spacing_ratio)
        eye_y_adjust == FloatMul(bbox_height, cfg.eye_adjustment_ratio)
        X(k) == IntTimesFloat(w, FloatOf2048ths(k.x))
        Y(k) == IntTimesFloat(h, FloatOf2048ths(k.y))
    IN  [f \in FeatureSet \cup {"eyebrows"} |->
            IF f = "right_eye"
            THEN <<IntOfFloat(FloatSub(X(right_eye), eye_spacing)) + cfg.offsets["right_eye"][1],
                   IntOfFloat(FloatSub(Y(right_eye), eye_y_adjust)) - cfg.offsets["right_eye"][2]>>
            ELSE IF f = "left_eye"
            THEN <<IntOfFloat(FloatAdd(X(left_eye), eye_spacing)) + cfg.offsets["left_eye"][1],
                   IntOfFloat(FloatSub(Y(left_eye), eye_y_adjust)) - cfg.offsets["left_eye"][2]>>
            ELSE IF f = "nose"
            THEN <<IntOfFloat(X(nose)) + cfg.offsets["nose"][1],
                   IntOfFloat(Y(nose)) - cfg.offsets["nose"][2]>>
            ELSE IF f = "mouth"
            THEN <<IntOfFloat(X(mouth)) + cfg.offsets["mouth"][1],
                   IntOfFloat(Y(mouth)) - cfg.offsets["mouth"][2]>>
            ELSE <<IntOfFloat(X(right_eye)), IntOfFloat(Y(right_eye))>>]

\* _calculate_positions, lines 168-193: the raw anchors
RawPositions(cfg, keypoints, w, h, bbox_height) ==
    LET right_eye == keypoints[1]
        left_eye == keypoints[2]
        nose == keypoints[3]
        mouth == keypoints[4]
        eye_spacing == FloatOfInt(cfg.eye_spacing_ratio)
        eye_y_adjust == FloatMul(bbox_height, cfg.eye_adjustment_ratio)
        X(k) == IntTimesFloat(w, FloatOf2048ths(k.x))
        Y(k) == IntTimesFloat(h, FloatOf2048ths(k.y))
    IN  [f \in FeatureSet |->
            IF f = "right_eye"
            THEN <<IntOfFloat(FloatSub(X(right_eye), eye_spacing)) + cfg.offsets["right_eye"][1],
                   IntOfFloat(FloatSub(Y(right_eye), eye_y_adjust)) - cfg.offsets["right_eye"][2]>>
            ELSE IF f = "left_eye"
            THEN <<IntOfFloat(FloatAdd(X(left_eye), eye_spacing)) + cfg.offsets["left_eye"][1],
                   IntOfFloat(FloatSub(Y(left_eye), eye_y_adjust)) - cfg.offsets["left_eye"][2]>>
            ELSE IF f = "nose"
            THEN <<IntOfFloat(X(nose)) + cfg.offsets["nose"][1],
                   IntOfFloat(Y(nose)) - cfg.offsets["nose"][2]>>
            ELSE <<IntOfFloat(X(mouth)) + cfg.offsets["mouth"][1],
                   IntOfFloat(Y(mouth)) - cfg.offsets["mouth"][2]>>]

\* _process_detection, lines 137-145: the raw anchors of one detection
DetectionRaw(cfg, d) ==
    RawPositions(cfg, d.keypoints, ResizedWidth, ResizedHeight,
                 IntTimesFloat(ResizedHeight, FloatOf2048ths(d.box.height)))

\* _apply_overlays, lines 216-226: the apply_overlay calls for one detection,
\* for the features from position i of the dict on
RECURSIVE OverlayCalls(_, _, _, _, _, _, _)
\* the loop without the test of the show flag
OverlayCallsUnfiltered(cfg, ovs, shown, positions, angle, base_scale, i) ==
    IF i > Len(Features) THEN <<>>
    ELSE (IF Features[i] \notin DOMAIN ovs \/ ovs[Features[i]] = None
          THEN <<>>
          ELSE <<[feature |-> Features[i],
                  x |-> positions[Features[i]][1], y |-> positions[Features[i]][2],
                  overlay |-> ovs[Features[i]],
                  scale |-> get_feature_scale(cfg, Features[i], base_scale),
                  angle |-> angle]>>)
         \o OverlayCalls(cfg, ovs, shown, positions, angle, base_scale, i + 1)

OverlayCalls(cfg, ovs, shown, positions, angle, base_scale, i) ==
    IF i > Len(Features) THEN <<>>
    ELSE (IF Features[i] \notin DOMAIN ovs \/ ~shown[Features[i]] \/ ovs[Features[i]] = None
          THEN <<>>
          ELSE <<[feature |-> Features[i],
                  x |-> positions[Features[i]][1], y |-> positions[Features[i]][2],
                  overlay |-> ovs[Features[i]],
                  scale |-> get_feature_scale(cfg, Features[i], base_scale),
                  angle |-> angle]>>)
         \o OverlayCalls(cfg, ovs, shown, positions, angle, base_scale, i + 1)

\* _apply_overlays, lines 211-213 and the loop
ApplyOverlays(cfg, ovs, shown, positions, bbox_width) ==
    OverlayCalls(cfg, ovs, shown, positions, calculate_angle(positions),
                 FloatMax(FloatOfInt(1), FloatDivNat(bbox_width, BASE_SCALE_FACTOR)), 1)

\* process_frame, lines 117-120: the detections from position i on, with
\* the tracker t; run is what the detections before i left behind
RECURSIVE ProcessDetections(_, _, _, _, _, _)
ProcessDrawn(cfg, ovs, shown, dets, i, t, run, raw, calls) ==
    ProcessDetections(cfg, ovs, shown, dets, i + 1,
        [tracker |-> t,
         processed |-> Append(run.processed, [raw |-> raw, positions |-> t.sm, calls |-> calls]),
         calls |-> run.calls \o calls])

ProcessTracked(cfg, ovs, shown, dets, i, t, run, raw) ==
    ProcessDrawn(cfg, ovs, shown, dets, i, t, run, raw,
        ApplyOverlays(cfg, ovs, shown, t.sm,
            IntTimesFloat(ResizedWidth, FloatOf2048ths(dets[i].box.width))))

ProcessRaw(cfg, ovs, shown, dets, i, run, raw) ==
    ProcessTracked(cfg, ovs, shown, dets, i, TrackerUpdate(run.tracker, raw), run, raw)

\* process_frame clearing the tracker when the detector finds no face
ProcessDetectionsForgetting(cfg, ovs, shown, dets, i, run) ==
    IF Len(dets) = 0 THEN [run EXCEPT !.tracker.prev = EmptyMap]
    ELSE IF i > Len(dets) THEN run
    ELSE ProcessRaw(cfg, ovs, shown, dets, i, run, DetectionRaw(cfg, dets[i]))

ProcessDetections(cfg, ovs, shown, dets, i, run) ==
    IF i > Len(dets) THEN run
    ELSE ProcessRaw(cfg, ovs, shown, dets, i, run, DetectionRaw(cfg, dets[i]))

\* process_frame with the flag saying that a face was found
ProcessSuccessIfDetected(dets) == Len(dets) > 0

\* process_frame, line 122: return True, frame
ProcessSuccess(dets) == TRUE

\* FaceOverlayApp._update_frame, lines 184-188: the image handed to cv2.imshow
\* for what process_frame returned (the returned frame is never None)
UpdateFrameShows(result) == IF result.success THEN "processed_frame" ELSE "frame"

\* the person selected in the UI
SelectedName == "AnBoHyeon"

\* a call of load_overlays or toggle_feature, before it is logged
Call(op, feature, status) ==
    [op |-> op, feature |-> feature, status |-> status, before |-> <<>>, shown |-> <<>>,
     files |-> {}, prev |-> <<>>]

NoOp == Call("none", "", FALSE)

\* the call now being made, put in front of the one before it
LoggedAs(call, ovs, shown, present, before_it) ==
    [call EXCEPT !.before = ovs, !.shown = shown, !.files = present,
                 !.prev = [before_it EXCEPT !.prev = <<>>]]

Logged(call) == LoggedAs(call, overlays, show_status, files, last_op)

\* OverlayManager.load_overlays: what it changes in the sprite cache
LoadSprites ==
    /\ current_name' = SelectedName
    /\ overlays' = [f \in FeatureSet |->
                        create_overlay(files, f,
                            show_status["eyebrows"] /\ f \in {"right_eye", "left_eye"})]
    /\ last_op' = Logged(Call("load_overlays", "", FALSE))
    /\ UNCHANGED <<config, show_status, sliders, files>>

\* OverlayManager.load_overlays
LoadOverlays ==
    /\ LoadSprites
    /\ UNCHANGED <<trackerVars, overlayVars, processVars, angleVars, streamVars>>

\* _update_eye_overlays keeping the variant loaded before
UpdateEyeOverlaysStale(ovs, shown, name, present) == ovs

\* OverlayManager._update_eye_overlays
UpdateEyeOverlays(ovs, shown, name, present) ==
    IF name = "" THEN ovs
    ELSE [f \in DOMAIN ovs \cup {"right_eye", "left_eye"} |->
            IF f \in {"right_eye", "left_eye"}
            THEN create_overlay(present, f, shown["eyebrows"])
            ELSE ovs[f]]

\* OverlayManager.toggle_feature; the model ticks and unticks the eyebrows
\* and the nose check boxes
ToggleFeature ==
    /\ \E feature \in {"eyebrows", "nose"} : \E status \in BOOLEAN :
        /\ show_status' = [show_status EXCEPT ![feature] = status]
        /\ overlays' = IF feature = "eyebrows"
                       THEN UpdateEyeOverlays(overlays, show_status', current_name, files)
                       ELSE overlays
        /\ last_op' = Logged(Call("toggle_feature", feature, status))
    /\ UNCHANGED <<config, sliders, files, current_name>>
    /\ UNCHANGED <<trackerVars, overlayVars, processVars, angleVars, streamVars>>

SetProcessed(dets, run) ==
    /\ SetTracker(run.tracker)
    /\ detections' = dets
    /\ frame_start' = prev_positions
    /\ processed' = run.processed
    /\ process_result' = [made |-> TRUE, success |-> ProcessSuccess(dets), calls |-> run.calls,
                          overlays |-> overlays, show_status |-> show_status]

\* VideoProcessor.process_frame on a frame in which the detector finds dets
ProcessFrameOf(dets) ==
    SetProcessed(dets,
        ProcessDetections(config, overlays, show_status, dets, 1,
            [tracker |-> TrackerNow, processed |-> <<>>, calls |-> <<>>]))

ProcessFrame ==
    /\ \E dets \in DetectionLists : ProcessFrameOf(dets)
    /\ UNCHANGED <<overlayVars, assetVars, angleVars, streamVars>>

\* process_frame on a frame in which the detector finds exactly one face
ProcessFrameOneFace ==
    /\ \E d \in Faces : ProcessFrameOf(<<d>>)
    /\ UNCHANGED <<overlayVars, assetVars, angleVars, streamVars>>

\* UIManager._create_size_slider, _create_position_sliders and
\* _create_eye_spacing_slider: the scales and the values they are set to
SliderDefaults(cfg) ==
    [n \in {"eye_size", "eye_y_offset", "eye_x_offset", "eye_spacing",
            "nose_size", "nose_y_offset", "nose_x_offset",
            "mouth_size", "mouth_y_offset", "mouth_x_offset"} |->
        IF n = "eye_size" THEN cfg.overlay_sizes["right_eye"]
        ELSE IF n = "nose_size" THEN cfg.overlay_sizes["nose"]
        ELSE IF n = "mouth_size" THEN cfg.overlay_sizes["mouth"]
        ELSE IF n = "eye_spacing" THEN cfg.eye_spacing_ratio
        ELSE 0]

\* the slider movements of the model, all within SLIDER_RANGES
SliderMoves ==
    ({"nose_size"} \X {1, 100, 400}) \cup ({"eye_spacing"} \X {0, 2})
        \cup ({"eye_x_offset"} \X {0, 1}) \cup ({"eye_size"} \X {1, 50})
        \cup ({"mouth_size"} \X {1, 2}) \cup ({"mouth_x_offset"} \X {0, 3})
        \cup ({"nose_y_offset"} \X {0, 0 - 20})

\* UIManager._update_size_config: the slider of feature f is named after
\* the last part of f, so both eyes read eye_size
SizeSlider(f) == IF f \in {"right_eye", "left_eye"} THEN "eye_size"
                 ELSE IF f = "nose" THEN "nose_size" ELSE "mouth_size"

\* UIManager._update_offset_config
OffsetSliders(f) ==
    IF f \in {"right_eye", "left_eye"} THEN <<"eye_x_offset", "eye_y_offset">>
    ELSE IF f = "nose" THEN <<"nose_x_offset", "nose_y_offset">>
    ELSE <<"mouth_x_offset", "mouth_y_offset">>

\* UIManager._update_config: every setting is read back from its slider
ConfigFromSliders(cfg, sl) ==
    [cfg EXCEPT
        !.overlay_sizes = [f \in FeatureSet |-> sl[SizeSlider(f)]],
        !.offsets = [f \in FeatureSet |-> <<sl[OffsetSliders(f)[1]], sl[OffsetSliders(f)[2]]>>],
        !.eye_spacing_ratio = sl["eye_spacing"]]

\* the user moves one slider; Tk runs its command, UIManager._update_config
UpdateConfig ==
    /\ \E mv \in SliderMoves :
        /\ sliders[mv[1]] # mv[2]
        /\ sliders' = [sliders EXCEPT ![mv[1]] = mv[2]]
        /\ config' = ConfigFromSliders(config, sliders')
    /\ UNCHANGED <<overlays, show_status, files, current_name, last_op>>
    /\ UNCHANGED <<trackerVars, overlayVars, processVars, angleVars, streamVars>>

(***************************************************************************)
(* FaceOverlayApp: the video stream and the chain of _update_frame calls   *)
(***************************************************************************)
DEFAULT_TARGET == "DEFAULT_TARGET"

\* what one _update_frame call did: the result of vid.read(), whether
\* process_frame returned or raised, the image given to cv2.imshow, whether
\* root.after was called, whether handle_error reported an exception and
\* whether _stop_video was called
NoUpdate ==
    [ran |-> FALSE, read |-> "none", processed |-> "none", shown |-> "none",
     scheduled |-> FALSE, error |-> FALSE, stopped |-> FALSE]

\* what the world decides during one _update_frame call: ret of vid.read(),
\* whether the detector (or cv2.resize) raises inside process_frame, whether
\* cv2.waitKey returns ord('q'), and the faces in the frame
\* (a read that fails has no frame, a frame on which process_frame raises
\* has no detections and is never shown, and the model presses 'q' on
\* frames without a face)
UpdateInputs ==
    {in \in [ret : BOOLEAN, raises : BOOLEAN, key_q : BOOLEAN,
             dets : {<<>>} \cup {<<d>> : d \in Faces}] :
        /\ (~in.ret \/ in.raises \/ in.key_q) => in.dets = <<>>
        /\ ~in.ret => (~in.raises /\ ~in.key_q)
        /\ in.raises => ~in.key_q}

\* FaceOverlayApp._stop_video and VideoProcessor.stop_capture
_stop_video(run) == [display_on |-> FALSE, vid |-> "None", run |-> [run EXCEPT !.stopped = TRUE]]

\* _update_frame without the check of display_on in lines 175-176
_update_frameUnguarded(display, v, in) ==
    IF v = "None"
    THEN [display_on |-> display, vid |-> v,
          run |-> [NoUpdate EXCEPT !.ran = TRUE, !.read = "raised", !.error = TRUE]]
    ELSE [display_on |-> display, vid |-> v,
          run |-> [NoUpdate EXCEPT !.ran = TRUE, !.read = "frame", !.processed = "returned",
                                   !.shown = "processed_frame", !.scheduled = TRUE]]

\* _update_frame, lines 175-196, with display_on = display and vid = v.
\* vid.read() on None raises AttributeError, and process_frame returning
\* None (handle_error caught an exception) makes the tuple assignment of
\* line 184 raise TypeError; handle_error of _update_frame catches both.
_update_frame(display, v, in) ==
    IF ~display
    THEN [display_on |-> display, vid |-> v, run |-> [NoUpdate EXCEPT !.ran = TRUE]]
    ELSE IF v = "None"
    THEN [display_on |-> display, vid |-> v,
          run |-> [NoUpdate EXCEPT !.ran = TRUE, !.read = "raised", !.error = TRUE]]
    ELSE IF ~in.ret
    THEN _stop_video([NoUpdate EXCEPT !.ran = TRUE, !.read = "end"])
    ELSE IF in.raises
    THEN [display_on |-> display, vid |-> v,
          run |-> [NoUpdate EXCEPT !.ran = TRUE, !.read = "frame", !.processed = "raised",
                                   !.error = TRUE]]
    ELSE IF in.key_q
    THEN _stop_video([NoUpdate EXCEPT !.ran = TRUE, !.read = "frame", !.processed = "returned",
                                      !.shown = UpdateFrameShows([success |-> ProcessSuccess(in.dets)])])
    ELSE [display_on |-> display, vid |-> v,
          run |-> [NoUpdate EXCEPT !.ran = TRUE, !.read = "frame", !.processed = "returned",
                                   !.shown = UpdateFrameShows([success |-> ProcessSuccess(in.dets)]),
                                   !.scheduled = TRUE]]

\* VideoSourceFactory.create_source: handle_error turns the ValueError of a
\* source that does not open into a return value of None
create_source(opens) == IF opens THEN "capture" ELSE "None"

\* VideoProcessor.start_capture, lines 62-75: for the camera vid.set raises
\* on None and the except clause returns False; for a video file nothing
\* touches vid and True is returned
start_capture(camera, opens) ==
    [vid |-> create_source(opens), result |-> IF camera THEN opens ELSE TRUE]

\* the record of one UI event or timer callback
StreamCall(op, started, run, gap) ==
    [op |-> op, started |-> started, run |-> run, after_gap |-> gap, warned |-> FALSE]

\* the frame before this one was processed and had no detection
AfterGap(out) == out.run.processed = "returned" /\ process_result.made /\ detections = <<>>

\* the state left by an _update_frame call that consumed `fired` callbacks
\* of root.after; process_frame changes the tracker only when it returns
RunFrame(out, in, fired) ==
    /\ display_on' = out.display_on
    /\ vid' = out.vid
    /\ pending' = pending - fired + (IF out.run.scheduled THEN 1 ELSE 0)
    /\ IF out.run.processed = "returned"
       THEN ProcessFrameOf(in.dets)
       ELSE UNCHANGED <<trackerVars, processVars>>

\* toggle_display, line 93: no person selected, a warning and nothing else
ToggleUnselected ==
    /\ selected_name = DEFAULT_TARGET
    /\ stream_call' = [StreamCall("toggle_display", "none", NoUpdate, FALSE) EXCEPT !.warned = TRUE]
    /\ UNCHANGED <<display_on, vid, pending, trackerVars, processVars>>

\* toggle_display, lines 96-99, and _start_video when start_capture
\* returns False: an error dialog, and display_on stays as line 97 set it
StartFails(opens) ==
    /\ ~start_capture(camera_mod, opens).result
    /\ display_on' = TRUE
    /\ vid' = start_capture(camera_mod, opens).vid
    /\ stream_call' = StreamCall("toggle_display", "False", NoUpdate, FALSE)
    /\ UNCHANGED <<pending, trackerVars, processVars>>

\* toggle_display, lines 96-99, and _start_video when start_capture
\* returns True: the first _update_frame call is made at once
StartRuns(opens, in, out) ==
    /\ start_capture(camera_mod, opens).result
    /\ RunFrame(out, in, 0)
    /\ stream_call' = StreamCall("toggle_display", "True", out.run, AfterGap(out))

Start(opens, in) ==
    \/ StartFails(opens)
    \/ StartRuns(opens, in, _update_frame(TRUE, start_capture(camera_mod, opens).vid, in))

\* toggle_display, lines 100-102
Stop ==
    /\ display_on' = _stop_video(NoUpdate).display_on
    /\ vid' = _stop_video(NoUpdate).vid
    /\ stream_call' = StreamCall("toggle_display", "none", _stop_video(NoUpdate).run, FALSE)
    /\ UNCHANGED <<pending, trackerVars, processVars>>

\* FaceOverlayApp.toggle_display, the start/stop button
ToggleDisplay ==
    /\ \/ ToggleUnselected
       \/ /\ selected_name # DEFAULT_TARGET /\ ~display_on /\ pending < MaxPending
          /\ \E opens \in BOOLEAN, in \in UpdateInputs : Start(opens, in)
       \/ /\ selected_name # DEFAULT_TARGET /\ display_on
          /\ Stop
    /\ UNCHANGED <<camera_mod, selected_name>>
    /\ UNCHANGED <<overlayVars, assetVars, angleVars>>

\* the callback that root.after(FRAME_UPDATE_INTERVAL, self._update_frame) left
TimerRuns(in, out) ==
    /\ RunFrame(out, in, 1)
    /\ stream_call' = StreamCall("timer", "none", out.run, AfterGap(out))

TimerFires ==
    /\ pending > 0
    /\ \E in \in UpdateInputs : TimerRuns(in, _update_frame(display_on, vid, in))
    /\ UNCHANGED <<camera_mod, selected_name>>
    /\ UNCHANGED <<overlayVars, assetVars, angleVars>>

\* UIManager._toggle_video_source: _switch_to_camera and _switch_to_video
ToggleVideoSource ==
    /\ \E camera \in BOOLEAN :
        /\ camera # camera_mod
        /\ camera_mod' = camera
    /\ stream_call' = StreamCall("toggle_video_source", "none", NoUpdate, FALSE)
    /\ UNCHANGED <<display_on, vid, selected_name, pending>>
    /\ UNCHANGED <<trackerVars, overlayVars, assetVars, processVars, angleVars>>

\* UIManager._on_name_change: a person is chosen in the combobox, whose
\* values never include DEFAULT_TARGET; _show_selected_image loads the sprites
OnNameChange ==
    /\ selected_name' = SelectedName
    /\ LoadSprites
    /\ stream_call' = StreamCall("on_name_change", "none", NoUpdate, FALSE)
    /\ UNCHANGED <<display_on, vid, camera_mod, pending>>
    /\ UNCHANGED <<trackerVars, overlayVars, processVars, angleVars>>

InitStream ==
    /\ display_on = FALSE
    /\ vid = "None"
    /\ camera_mod = TRUE
    /\ selected_name = DEFAULT_TARGET
    /\ pending = 0
    /\ stream_call = [op |-> "none", started |-> "none", run |-> NoUpdate,
                      after_gap |-> FALSE, warned |-> FALSE]

InitAssets ==
    /\ config = DEFAULT_CONFIG
    /\ overlays = EmptyMap
    /\ show_status = [f \in FeatureSet \cup {"eyebrows"} |-> f # "eyebrows"]
    /\ sliders = SliderDefaults(DEFAULT_CONFIG)
    /\ files = SpriteFiles
    /\ current_name = ""
    /\ last_op = NoOp

InitProcess ==
    /\ detections = <<>>
    /\ frame_start = EmptyMap
    /\ processed = <<>>
    /\ process_result = [made |-> FALSE]

Init == InitTracker /\ InitOverlay /\ InitAssets /\ InitProcess /\ InitAngle /\ InitStream

\* the tracker on its own
Next == UpdateCall

Spec == Init /\ [][Next]_vars

\* the compositor on its own
NextOverlay == ReadFrame \/ ApplyOverlay

SpecOverlay == Init /\ [][NextOverlay]_vars

\* the per-frame pipeline
NextFrame == LoadOverlays \/ ProcessFrame

SpecFrame == Init /\ [][NextFrame]_vars

\* the sprite cache on its own
NextAssets == LoadOverlays \/ ToggleFeature

SpecAssets == Init /\ [][NextAssets]_vars

\* the sprite files found on disk when the application starts: all of them
\* but at most MaxMissing that are missing or unreadable

InitFiles ==
    /\ config = DEFAULT_CONFIG
    /\ overlays = EmptyMap
    /\ show_status = [f \in FeatureSet \cup {"eyebrows"} |-> f # "eyebrows"]
    /\ sliders = SliderDefaults(DEFAULT_CONFIG)
    /\ files \in {SpriteFiles \ m :
                     m \in {s \in SUBSET SpriteFiles : Cardinality(s) <= MaxMissing}}
    /\ current_name = ""
    /\ last_op = NoOp

\* frames with one face while sprite files are missing
NextMissing == LoadOverlays \/ ProcessFrameOneFace

InitMissing == InitTracker /\ InitOverlay /\ InitFiles /\ InitProcess /\ InitAngle /\ InitStream

SpecMissing == InitMissing /\ [][NextMissing]_vars

\* the sliders on their own
NextSliders == UpdateConfig

SpecSliders == Init /\ [][NextSliders]_vars

\* Frames with one face, for every setting of the sliders: the settings
\* that _update_config can leave behind, with all sprite files loaded
SliderSettings ==
    {[[[[SliderDefaults(DEFAULT_CONFIG) EXCEPT !["nose_size"] = ns]
            EXCEPT !["eye_size"] = es] EXCEPT !["eye_spacing"] = sp] EXCEPT !["eye_x_offset"] = ex] :
        ns \in {1, 100, 400}, es \in {1, 250}, sp \in {0, 2}, ex \in {0, 1}}

InitSettings ==
    /\ sliders \in SliderSettings
    /\ config \in {DEFAULT_CONFIG, ConfigFromSliders(DEFAULT_CONFIG, sliders)}
    /\ sliders # SliderDefaults(DEFAULT_CONFIG) => config # DEFAULT_CONFIG
    /\ overlays = [f \in FeatureSet |-> create_overlay(SpriteFiles, f, FALSE)]
    /\ show_status = [f \in FeatureSet \cup {"eyebrows"} |-> f # "eyebrows"]
    /\ files = SpriteFiles
    /\ current_name = SelectedName
    /\ last_op = [Call("load_overlays", "", FALSE) EXCEPT !.files = SpriteFiles, !.prev = NoOp]

InitScale == InitTracker /\ InitOverlay /\ InitSettings /\ InitProcess /\ InitAngle /\ InitStream

NextScale == ProcessFrameOneFace

SpecScale == InitScale /\ [][NextScale]_vars

\* frames with one face for every setting of the nose and eyebrows check
\* boxes, before and after a person is selected: the state that
\* toggle_feature('nose', n), toggle_feature('eyebrows', e) and then, for a
\* selected person, load_overlays leave behind
ShownAfter(n, e) ==
    [f \in FeatureSet \cup {"eyebrows"} |->
        IF f = "eyebrows" THEN e ELSE IF f = "nose" THEN n ELSE TRUE]

ToggledEyebrows(n, e) ==
    LoggedAs(Call("toggle_feature", "eyebrows", e), EmptyMap, ShownAfter(n, FALSE), SpriteFiles,
             LoggedAs(Call("toggle_feature", "nose", n), EmptyMap, ShownAfter(TRUE, FALSE),
                      SpriteFiles, NoOp))

InitShown ==
    /\ config = DEFAULT_CONFIG
    /\ sliders = SliderDefaults(DEFAULT_CONFIG)
    /\ files = SpriteFiles
    /\ \E n \in BOOLEAN, e \in BOOLEAN :
        /\ show_status = ShownAfter(n, e)
        /\ \/ /\ current_name = ""
              /\ overlays = EmptyMap
              /\ last_op = ToggledEyebrows(n, e)
           \/ /\ current_name = SelectedName
              /\ overlays = [f \in FeatureSet |->
                                create_overlay(SpriteFiles, f, e /\ f \in {"right_eye", "left_eye"})]
              /\ last_op = LoggedAs(Call("load_overlays", "", FALSE), EmptyMap, ShownAfter(n, e),
                                    SpriteFiles, ToggledEyebrows(n, e))

InitToggled == InitTracker /\ InitOverlay /\ InitShown /\ InitProcess /\ InitAngle /\ InitStream

NextToggled == ProcessFrameOneFace

SpecToggled == InitToggled /\ [][NextToggled]_vars

\* calculate_angle on its own
NextAngle == CalculateAngle

SpecAngle == Init /\ [][NextAngle]_vars

\* the video stream: the UI events and the timer of the Tk event loop
NextStream == OnNameChange \/ ToggleVideoSource \/ ToggleDisplay \/ TimerFires

SpecStream == Init /\ [][NextStream]_vars

(***************************************************************************)
(* Claims about PositionTracker.update, checked under Spec.                *)
(***************************************************************************)
Axes == {1, 2}
Min(a, b) == IF a < b THEN a ELSE b
Max(a, b) == IF a < b THEN b ELSE a

\* n / d truncated toward zero, d > 0
TruncDiv(n, d) == IF n >= 0 THEN n \div d ELSE 0 - ((0 - n) \div d)

\* keys of the last call that had a previous smoothed value
SeenKeys == DOMAIN new_positions \cap DOMAIN old_positions

\* C1: every key of the raw map that had no entry in the tracker's state
\* when update was called is returned with its raw position unchanged.
C1_FirstSeenUnchanged ==
    \A f \in DOMAIN new_positions \ DOMAIN old_positions :
        f \in DOMAIN smoothed /\ smoothed[f] = new_positions[f]

\* a call on a non-empty state that brought a key the state did not have
C1_Witness ==
    /\ old_positions # EmptyMap
    /\ \E f \in DOMAIN new_positions \ DOMAIN old_positions : new_positions[f] # <<0, 0>>

\* C2: for every key with a previous smoothed value each axis of the output
\* is trunc((7 * prev + 3 * raw) / 10), truncation toward zero.
C2_ExactTruncatedBlend ==
    \A f \in SeenKeys : \A a \in Axes :
        smoothed[f][a] = TruncDiv(7 * old_positions[f][a] + 3 * new_positions[f][a], 10)

\* C3: after update the stored state is exactly the returned map, whose
\* keys are the keys of the raw map: keys of the old state absent from the
\* raw map are dropped, and an empty raw map leaves the state empty.
C3_StateIsReturnedMap ==
    /\ prev_positions = smoothed
    /\ DOMAIN prev_positions = DOMAIN new_positions
    /\ (new_positions = EmptyMap => prev_positions = EmptyMap)

\* a call that kept one key and dropped another key of the old state
C3_Witness ==
    /\ SeenKeys # {}
    /\ \E f \in DOMAIN old_positions : f \notin DOMAIN new_positions /\ f \notin DOMAIN prev_positions

\* C4 as stated: for every key with a previous smoothed value each axis of
\* the output lies strictly between the previous value and the raw value,
\* and equals them only when they are equal to each other.
C4_StrictlyBetween ==
    \A f \in SeenKeys : \A a \in Axes :
        LET p == old_positions[f][a]
            r == new_positions[f][a]
            v == smoothed[f][a]
        IN  IF p = r THEN v = p ELSE Min(p, r) < v /\ v < Max(p, r)

\* C4 amended: each axis of the output lies in the closed interval between
\* the previous value and the raw value when they differ; when they are
\* equal it is that value or the integer next to it toward zero.
C4_WithinClosedInterval ==
    \A f \in SeenKeys : \A a \in Axes :
        LET p == old_positions[f][a]
            r == new_positions[f][a]
            v == smoothed[f][a]
        IN  IF p = r
            THEN v = p \/ (p > 0 /\ v = p - 1) \/ (p < 0 /\ v = p + 1)
            ELSE Min(p, r) <= v /\ v <= Max(p, r)

\* a call whose output sits on an end of the interval although the previous
\* and the raw value differ
C4_Witness ==
    \E f \in SeenKeys : \E a \in Axes :
        /\ old_positions[f][a] # new_positions[f][a]
        /\ smoothed[f][a] = old_positions[f][a]

\* per-axis error of a value against the raw position of the last call
ErrBefore(f, a) == Abs(old_positions[f][a] - new_positions[f][a])
ErrAfter(f, a) == Abs(smoothed[f][a] - new_positions[f][a])

\* C5 as stated: when a call repeats the raw map of the call before, every
\* non-zero per-axis error shrinks and a zero error stays zero, so that the
\* error reaches 0.
C5_ErrorAlwaysShrinks ==
    repeats >= 1 =>
        \A f \in SeenKeys : \A a \in Axes :
            IF ErrBefore(f, a) = 0 THEN ErrAfter(f, a) = 0
            ELSE ErrAfter(f, a) < ErrBefore(f, a)

\* C5 amended: when a call repeats the raw map of the call before, a
\* per-axis error above 3 shrinks, a non-zero error never grows, and a zero
\* error becomes at most 1.
C5_ErrorNeverGrows ==
    repeats >= 1 =>
        \A f \in SeenKeys : \A a \in Axes :
            /\ ErrBefore(f, a) > 3 => ErrAfter(f, a) < ErrBefore(f, a)
            /\ ErrBefore(f, a) >= 1 => ErrAfter(f, a) <= ErrBefore(f, a)
            /\ ErrBefore(f, a) = 0 => ErrAfter(f, a) <= 1

\* the same raw map passed three times in a row, the last call leaving a
\* non-zero error as it was
C5_Witness ==
    /\ repeats >= 2
    /\ \E f \in SeenKeys : \E a \in Axes :
        ErrBefore(f, a) > 0 /\ ErrAfter(f, a) = ErrBefore(f, a)

(***************************************************************************)
(* Claims about OverlayManager.apply_overlay, checked under SpecOverlay.   *)
(***************************************************************************)
\* shape of the transformed sprite of the last call
CallShape == TransformedShape(overlay_call.img, overlay_call.scale, overlay_call.angle)

\* the last call drew the sprite as it is: scale 1, angle 0
CallUntransformed == overlay_call.scale = FloatOfInt(1) /\ overlay_call.angle = 0

\* the sprite of the last call is fully opaque
CallOpaque ==
    \A i \in 0..(overlay_call.img.h - 1) : \A j \in 0..(overlay_call.img.w - 1) :
        AlphaOf(overlay_call.img, i, j) = 255

\* the rectangle of h by w pixels centred on (x, y), its ends truncated toward
\* zero, clipped to the frame
CentredRect(h, w, x, y) ==
    [y1 |-> Max(0, TruncDiv(2 * y - h, 2)), y2 |-> Min(FrameH, TruncDiv(2 * y + h, 2)),
     x1 |-> Max(0, TruncDiv(2 * x - w, 2)), x2 |-> Min(FrameW, TruncDiv(2 * x + w, 2))]

CallRect == CentredRect(CallShape[1], CallShape[2], overlay_call.x, overlay_call.y)

InRect(r, Y, X) == r.y1 <= Y /\ Y < r.y2 /\ r.x1 <= X /\ X < r.x2

\* C6: with scale 1, angle 0 and a fully opaque sprite, every frame pixel
\* inside the clipped rectangle centred on the anchor holds the sprite's
\* pixel value, and every pixel outside it is as it was before the call.
C6_OpaqueReplacesRectangle ==
    (overlay_call.made /\ CallUntransformed /\ CallOpaque) =>
        \A Y \in Rows : \A X \in Cols :
            IF InRect(CallRect, Y, X)
            THEN frame[Y][X] = ColourOf(overlay_call.img, Y - CallRect.y1, X - CallRect.x1)
            ELSE frame[Y][X] = frame_before[Y][X]

\* an opaque sprite drawn unscaled over part of the frame, cut by an edge
C6_Witness ==
    /\ overlay_call.made /\ CallUntransformed /\ CallOpaque
    /\ \E Y \in Rows : \E X \in Cols : InRect(CallRect, Y, X)
    /\ \E Y \in Rows : \E X \in Cols : ~InRect(CallRect, Y, X)
    /\ (CallRect.y2 - CallRect.y1 < overlay_call.img.h \/ CallRect.x2 - CallRect.x1 < overlay_call.img.w)
    /\ frame # frame_before

\* the h by w rectangle centred on (x, y) has no point inside the frame
EntirelyOutside(h, w, x, y) ==
    \/ 2 * y + h <= 0
    \/ 2 * y - h >= 2 * FrameH
    \/ 2 * x + w <= 0
    \/ 2 * x - w >= 2 * FrameW

\* C7: when the anchor places the transformed sprite entirely outside the
\* frame, on any of the four sides, every pixel of the frame is unchanged.
C7_OutsideLeavesFrame ==
    (/\ overlay_call.made
     /\ EntirelyOutside(CallShape[1], CallShape[2], overlay_call.x, overlay_call.y)) =>
        frame = frame_before

\* a scaled sprite placed beyond the right or the bottom edge
C7_Witness ==
    /\ overlay_call.made
    /\ CallShape[1] > 0 /\ CallShape[2] > 0
    /\ overlay_call.scale = FloatOfInt(2)
    /\ (\/ 2 * overlay_call.y - CallShape[1] >= 2 * FrameH
        \/ 2 * overlay_call.x - CallShape[2] >= 2 * FrameW)
    /\ frame = frame_before /\ ~error_shown

\* the shape has at least one row and one column
ShapeNotEmpty(shape) == shape[1] > 0 /\ shape[2] > 0

\* the frame after a call that drew into rectangle r: pixel (r.y1 + i, r.x1 + j)
\* is blended with pixel (i, j) of the sprite, the others are as before
CroppedFromOrigin(r, resampled) ==
    \A Y \in Rows : \A X \in Cols :
        IF ~InRect(r, Y, X) THEN frame[Y][X] = frame_before[Y][X]
        ELSE IF resampled THEN frame[Y][X] = Resampled
        ELSE IF AlphaOf(overlay_call.img, Y - r.y1, X - r.x1) = 255
        THEN frame[Y][X] = ColourOf(overlay_call.img, Y - r.y1, X - r.x1)
        ELSE frame[Y][X] = frame_before[Y][X]

\* C8: the destination is the sprite-sized rectangle centred on the anchor,
\* clipped to the frame, and destination pixel (y1 + i, x1 + j) is blended
\* with pixel (i, j) of the transformed sprite whichever edge clipped it;
\* nothing else is written.
C8_CropFromOrigin ==
    (overlay_call.made /\ ShapeNotEmpty(CallShape)) =>
        CroppedFromOrigin(CallRect,
                          IsResampled(overlay_call.img, overlay_call.scale, overlay_call.angle))

\* a sprite drawn as it is and cut by the top or the left edge of the frame
C8_Witness ==
    /\ overlay_call.made /\ CallUntransformed
    /\ \E Y \in Rows : \E X \in Cols : InRect(CallRect, Y, X)
    /\ (\/ 2 * overlay_call.y - overlay_call.img.h < 0 /\ CallRect.y2 - CallRect.y1 < overlay_call.img.h
        \/ 2 * overlay_call.x - overlay_call.img.w < 0 /\ CallRect.x2 - CallRect.x1 < overlay_call.img.w)
    /\ frame # frame_before /\ ~error_shown

(***************************************************************************)
(* Claims about VideoProcessor.process_frame, checked under SpecFrame      *)
(***************************************************************************)
NoDetections == process_result.made /\ Len(detections) = 0

C10_FacesIndependent ==
    \A i \in 1..Len(processed) :
        processed[i].positions = SmoothedPositions(frame_start, processed[i].raw)

(***************************************************************************)
(* Claims about PositionTracker.calculate_angle, checked under SpecAngle   *)
(***************************************************************************)
BothEyes == angle_call.made /\ DOMAIN angle_call.positions = {"left_eye", "right_eye"}
EyeMissing == angle_call.made /\ DOMAIN angle_call.positions # {"left_eye", "right_eye"}

\* C11: a call without left_eye or right_eye ends in a missing-key error
\* that reaches the caller; the caller never receives a value, None included.
C11_MissingKeyReachesCaller ==
    EyeMissing =>
        /\ angle_call.outcome.raised = "KeyError"
        /\ ~angle_call.outcome.none

\* the same two points with the labels left_eye and right_eye exchanged
SwappedEyes ==
    [f \in {"left_eye", "right_eye"} |->
        IF f = "left_eye" THEN angle_call.positions["right_eye"]
        ELSE angle_call.positions["left_eye"]]

\* Angles are directions <<dy, dx>>; b is the float -a.  The angle 180 is
\* <<0, -1>>, and -180 is the angle of no direction with integer dy.
IsNegationOf(b, a) == a # <<0, 0 - 1>> /\ b = <<0 - a[1], a[2]>>

\* a turned by half a turn
HalfTurn(a) == <<0 - a[1], 0 - a[2]>>

SameX == angle_call.positions["left_eye"][1] = angle_call.positions["right_eye"][1]
SameY == angle_call.positions["left_eye"][2] = angle_call.positions["right_eye"][2]

\* C12 as stated: with the labels exchanged calculate_angle returns the
\* negation of the angle of the original labelling.
C12_SwapNegates ==
    BothEyes => IsNegationOf(calculate_angle(SwappedEyes), angle_call.outcome.value)

\* C12 amended: with the labels exchanged the angle of two distinct points
\* is the original turned by 180 degrees; it is the negation of the original
\* exactly when the two eyes have the same x-coordinate.
C12_SwapTurnsHalf ==
    BothEyes =>
        /\ (~(SameX /\ SameY)) =>
              calculate_angle(SwappedEyes) = HalfTurn(angle_call.outcome.value)
        /\ IsNegationOf(calculate_angle(SwappedEyes), angle_call.outcome.value) <=> SameX

\* a tilted eye line, left_eye to the right of right_eye and lower
C12_Witness ==
    /\ BothEyes
    /\ angle_call.positions["left_eye"][1] > angle_call.positions["right_eye"][1]
    /\ angle_call.positions["left_eye"][2] > angle_call.positions["right_eye"][2]
    /\ angle_call.outcome.value = <<1, 2>>

\* C13 as stated: the angle is 0 whenever the eyes have the same y.
C13_LevelIsZero ==
    (BothEyes /\ SameY) => angle_call.outcome.value = <<0, 1>>

\* C13 amended: with the same y the angle is 0 when left_eye.x is not less
\* than right_eye.x, and 180 when left_eye.x is less than right_eye.x.
C13_LevelIsZeroOrHalfTurn ==
    (BothEyes /\ SameY) =>
        angle_call.outcome.value =
            IF angle_call.positions["left_eye"][1] >= angle_call.positions["right_eye"][1]
            THEN <<0, 1>> ELSE <<0, 0 - 1>>

\* level eyes, left_eye at the smaller x
C13_Witness ==
    /\ BothEyes /\ SameY
    /\ angle_call.positions["left_eye"][1] < angle_call.positions["right_eye"][1]
    /\ angle_call.outcome.value = <<0, 0 - 1>>

(***************************************************************************)
(* Claims about scales and raw anchors, checked under SpecScale            *)
(***************************************************************************)
\* bbox.width * w of detection d, as _process_detection computes it
BoxWidthPixels(d) == IntTimesFloat(ResizedWidth, FloatOf2048ths(d.box.width))

\* max(0.1, max(1, bbox_width / 400) * (size / 100)) in floats
ExpectedScale(bbox_width, size) ==
    FloatMax(Dbl(FALSE, <<131072, 157286, 104857, 26214, 0>>),
             FloatMul(FloatMax(FloatOfInt(1), FloatDivNat(bbox_width, 400)),
                      FloatDivNat(FloatOfInt(size), 100)))

\* the apply_overlay calls made for detection i of the last frame
CallsOf(i) == {processed[i].calls[k] : k \in 1..Len(processed[i].calls)}

\* C14: the scale of every apply_overlay call is
\* max(0.1, max(1, bbox_width/400) * size/100) for the size configured for
\* the feature drawn and the box of the face drawn, and it is never below 0.1.
C14_ScaleFormula ==
    \A i \in 1..Len(processed) : \A call \in CallsOf(i) :
        /\ call.scale = ExpectedScale(BoxWidthPixels(detections[i]),
                                      config.overlay_sizes[call.feature])
        /\ ~FloatLess(call.scale, Dbl(FALSE, <<131072, 157286, 104857, 26214, 0>>))

\* a face wider than 400 pixels drawn with the nose at 400 percent, above
\* the floor, and the mouth at 1 percent, on the floor
C14_Witness ==
    /\ Len(processed) = 1 /\ detections[1] = FaceWide
    /\ config.overlay_sizes["nose"] = 400 /\ config.overlay_sizes["mouth"] = 1
    /\ \E call \in CallsOf(1) :
          call.feature = "nose" /\ FloatLess(FloatOfInt(4), call.scale)
    /\ \E call \in CallsOf(1) :
          call.feature = "mouth" /\ call.scale = Dbl(FALSE, <<131072, 157286, 104857, 26214, 0>>)

\* C15: with the default OverlayConfig and a face whose box is 150 pixels
\* wide (FaceNear: 149.875), the nose is drawn with scale exactly 1.
C15_DefaultNoseUnscaled ==
    (config = DEFAULT_CONFIG /\ Len(processed) = 1 /\ detections = <<FaceNear>>) =>
        \A call \in CallsOf(1) : call.feature = "nose" => call.scale = FloatOfInt(1)

\* The anchors of C16 in exact integer arithmetic: a relative coordinate is
\* n / 2048, and eye_adjustment_ratio is 1/10 in every configuration.
ExpectedAnchor(cfg, d, f) ==
    LET k == d.keypoints[IF f = "right_eye" THEN 1 ELSE IF f = "left_eye" THEN 2
                         ELSE IF f = "nose" THEN 3 ELSE 4]
        spacing == IF f = "right_eye" THEN 0 - cfg.eye_spacing_ratio
                   ELSE IF f = "left_eye" THEN cfg.eye_spacing_ratio ELSE 0
        lift == IF f \in {"right_eye", "left_eye"} THEN ResizedHeight * d.box.height ELSE 0
    IN  <<TruncDiv(ResizedWidth * k.x + 2048 * spacing, 2048) + cfg.offsets[f][1],
          TruncDiv(10 * ResizedHeight * k.y - lift, 20480) - cfg.offsets[f][2]>>

\* C16: the raw anchors are nose/mouth = (trunc(kx*W) + dx, trunc(ky*H) - dy),
\* right_eye = (trunc(kx*W - spacing) + dx, trunc(ky*H - bbox_height*ratio) - dy)
\* and left_eye the same with + spacing.
C16_RawAnchors ==
    \A i \in 1..Len(processed) : \A f \in FeatureSet :
        processed[i].raw[f] = ExpectedAnchor(config, detections[i], f)

\* a frame processed with a spacing and an eye offset set on the sliders
C16_Witness ==
    /\ Len(processed) = 1 /\ detections[1] = FaceWide
    /\ config.eye_spacing_ratio = 2 /\ config.offsets["left_eye"] = <<1, 0>>
    /\ processed[1].raw["left_eye"][1] - processed[1].raw["right_eye"][1] = 308 - 221 + 4

(***************************************************************************)
(* Claims about the sprite cache                                           *)
(***************************************************************************)
\* the file that holds the sprite of feature f: {name}_{side}_eye.png or
\* {name}_{side}_eyebrows.png for an eye, {name}_{feature}.png otherwise
SpriteFileOf(f, is_eyebrows) ==
    IF f = "right_eye" THEN (IF is_eyebrows THEN "right_eyebrows" ELSE "right_eye")
    ELSE IF f = "left_eye" THEN (IF is_eyebrows THEN "left_eyebrows" ELSE "left_eye")
    ELSE f

\* the features drawn for detection i of the last frame, in order
DrawnFeatures(i) == [k \in 1..Len(processed[i].calls) |-> processed[i].calls[k].feature]

\* the features in dict order that are shown and whose sprite is loaded
RECURSIVE ExpectedFeatures(_, _, _)
ExpectedFeatures(ovs, shown, k) ==
    IF k > Len(Features) THEN <<>>
    ELSE (IF shown[Features[k]] /\ ovs[Features[k]] # None THEN <<Features[k]>> ELSE <<>>)
         \o ExpectedFeatures(ovs, shown, k + 1)

\* C17, checked under SpecMissing: after load_overlays the sprite of a
\* feature is absent exactly when its own file was missing, and every frame
\* processed with the loaded sprites draws, for every face, each shown
\* feature whose sprite is loaded and skips the others.
C17_FailureContained ==
    /\ last_op.op = "load_overlays" =>
          \A f \in FeatureSet :
              overlays[f] = None <=> SpriteFileOf(f, show_status["eyebrows"]) \notin last_op.files
    /\ (process_result.made /\ DOMAIN process_result.overlays = FeatureSet) =>
          \A i \in 1..Len(processed) :
              DrawnFeatures(i) =
                  ExpectedFeatures(process_result.overlays, process_result.show_status, 1)

\* a frame drawn after a load that found one sprite file missing
C17_Witness ==
    /\ process_result.made /\ Len(processed) = 1
    /\ DOMAIN process_result.overlays = FeatureSet
    /\ \E f \in FeatureSet :
          /\ process_result.overlays[f] = None
          /\ \A g \in FeatureSet \ {f} : process_result.overlays[g] # None
          /\ Len(DrawnFeatures(1)) = 3
          /\ \A k \in 1..3 : DrawnFeatures(1)[k] # f

\* the last call was toggle_feature('eyebrows', s) and sprites had been loaded
EyebrowsToggled ==
    /\ last_op.op = "toggle_feature" /\ last_op.feature = "eyebrows"
    /\ DOMAIN last_op.before = FeatureSet

\* the last two calls were toggle_feature('eyebrows', True) and then
\* toggle_feature('eyebrows', False), on loaded sprites with the flag off
EyebrowsOnThenOff ==
    /\ EyebrowsToggled /\ ~last_op.status
    /\ last_op.prev.op = "toggle_feature" /\ last_op.prev.feature = "eyebrows"
    /\ last_op.prev.status
    /\ DOMAIN last_op.prev.before = FeatureSet
    /\ ~last_op.prev.shown["eyebrows"]
    /\ last_op.prev.files = files

\* C18, checked under SpecAssets: toggle_feature('eyebrows', s) after a load
\* leaves the nose and mouth sprites as they were and reloads both eye
\* sprites from the files of the variant s selects; on and then off brings
\* back the eye sprites there were before the first of the two toggles.
C18_EyebrowsReloadEyesOnly ==
    /\ EyebrowsToggled =>
          /\ overlays["nose"] = last_op.before["nose"]
          /\ overlays["mouth"] = last_op.before["mouth"]
          /\ \A f \in {"right_eye", "left_eye"} :
                overlays[f].file = SpriteFileOf(f, last_op.status)
    /\ EyebrowsOnThenOff =>
          \A f \in FeatureSet : overlays[f] = last_op.prev.before[f]

\* eyebrows switched on and off again, the eyebrow sprites in between
C18_Witness ==
    /\ EyebrowsOnThenOff
    /\ last_op.before["right_eye"].file = "right_eyebrows"
    /\ last_op.before["left_eye"].file = "left_eyebrows"
    /\ overlays["right_eye"].file = "right_eye"
    /\ overlays["right_eye"] = last_op.prev.before["right_eye"]

\* C19, checked under SpecAssets: after load_overlays the left_eye sprite is
\* its file mirrored, and the right_eye, nose and mouth sprites are their
\* files as read.
C19_OnlyLeftEyeMirrored ==
    (last_op.op = "load_overlays") =>
        \A f \in FeatureSet :
            /\ overlays[f].file = SpriteFileOf(f, show_status["eyebrows"])
            /\ overlays[f].flipped <=> f = "left_eye"

(***************************************************************************)
(* Claim about the keys of the tracked maps, checked under SpecFrame       *)
(***************************************************************************)
\* C20: after any sequence of frames the keys of the tracker state are none
\* (nothing detected so far) or exactly right_eye, left_eye, nose and mouth,
\* they are the keys of the map returned for the last detection processed,
\* and eyebrows is a key of neither map.
C20_TrackedKeys ==
    /\ DOMAIN prev_positions \in {{}, FeatureSet}
    /\ DOMAIN smoothed = DOMAIN prev_positions
    /\ \A i \in 1..Len(processed) : DOMAIN processed[i].positions = FeatureSet
    /\ Len(processed) > 0 => DOMAIN prev_positions = FeatureSet
    /\ "eyebrows" \notin DOMAIN prev_positions \cup DOMAIN smoothed

\* a frame without a face after frames with faces, the sprites loaded with
\* the eyebrows variant never selected
C20_Witness ==
    /\ process_result.made /\ Len(detections) = 0
    /\ DOMAIN prev_positions = FeatureSet
    /\ DOMAIN smoothed = FeatureSet
    /\ DOMAIN overlays = FeatureSet

(***************************************************************************)
(* Claims about the stream: _update_frame, toggle_display, the timer       *)
(***************************************************************************)
\* the last event ran _update_frame and process_frame raised in it
FrameFailed == stream_call.run.processed = "raised"

\* C21, checked under SpecStream: when process_frame raises on a frame, the
\* unmodified input frame is shown for it and, display being on, the next
\* _update_frame call is scheduled.
C21_FailedFrameFallsBack ==
    FrameFailed =>
        /\ stream_call.run.shown = "frame"
        /\ display_on => stream_call.run.scheduled

\* the last event processed a frame with a detection, and the frame
\* processed before it had none
Reappeared == stream_call.after_gap /\ Len(detections) > 0

\* C22 as stated, checked under SpecStream: features that reappear after
\* frames without a detection are first-seen, their smoothed anchors equal
\* their raw anchors.
C22_ReappearanceIsFirstSeen ==
    Reappeared => processed[1].positions = processed[1].raw

\* a step that processes a frame in which the detector finds no face
GapFrame == stream_call'.run.processed = "returned" /\ detections' = <<>>

\* C22 as amended, checked under SpecStream: a frame without a detection
\* leaves the remembered anchors as they are, and the anchors of features
\* that reappear are the blend of update with the remembered ones (the raw
\* anchors only for a feature that had never been seen).
C22_ReappearanceBlendsRemembered ==
    /\ [](Reappeared =>
            processed[1].positions = SmoothedPositions(frame_start, processed[1].raw))
    /\ [][GapFrame => prev_positions' = prev_positions]_vars

\* features seen before the gap come back at anchors that are not the raw ones
C22_Witness ==
    /\ Reappeared
    /\ DOMAIN frame_start = FeatureSet
    /\ processed[1].positions # processed[1].raw

\* a step that is not the start/stop button
NotToggled == stream_call'.op # "toggle_display"

\* C23, checked under SpecStream: whatever stopped the stream (the button,
\* the 'q' key, a failed read), display_on is False and vid is None after
\* it, and while display_on is False no event but the button reads,
\* processes or schedules a frame or turns the display on.
C23_StoppedStaysStopped ==
    /\ [](stream_call.run.stopped => (~display_on /\ vid = "None"))
    /\ [](~display_on => vid = "None")
    /\ [][(~display_on /\ NotToggled) =>
            /\ ~display_on' /\ vid' = "None"
            /\ stream_call'.run.read = "none" /\ stream_call'.run.processed = "none"
            /\ ~stream_call'.run.scheduled
            /\ pending' <= pending
            /\ UNCHANGED <<trackerVars, processVars>>]_vars

\* a callback left by the stopped stream ran and returned at once
C23_Witness ==
    /\ stream_call.op = "timer" /\ stream_call.run.ran
    /\ ~display_on /\ vid = "None"
    /\ stream_call.run.read = "none"
    /\ process_result.made

\* C24, checked under SpecStream: at most one _update_frame callback is
\* pending at any time.
C24_SingleChain == pending <= 1

\* C28, checked under SpecStream: display_on is True only with an opened
\* capture, start_capture never returns True without one, and display_on
\* is False after start_capture returned False.
C28_DisplayOnHasCapture ==
    /\ display_on => vid = "capture"
    /\ stream_call.started = "True" => stream_call.run.read # "raised"
    /\ stream_call.started = "False" => ~display_on

(***************************************************************************)
(* More claims about apply_overlay, checked under SpecOverlay              *)
(***************************************************************************)
\* the rectangle that _blend_overlay computes for the last call
CallClipped == ClipRect(DestRect(CallShape[1], CallShape[2], overlay_call.x, overlay_call.y))

RectEmpty(r) == r.y1 >= r.y2 \/ r.x1 >= r.x2

\* the last call had nothing to draw: an empty transformed sprite or an
\* empty clipped rectangle
CallDegenerate == CallShape[1] = 0 \/ CallShape[2] = 0 \/ RectEmpty(CallClipped)

\* C25, checked under SpecOverlay: apply_overlay never fails; a call with
\* degenerate geometry leaves the frame unchanged, and no call raises or
\* reports an error.
C25_NeverFails ==
    overlay_call.made =>
        /\ ~error_shown
        /\ CallDegenerate => frame = frame_before

\* rectangle r, when not empty, lies in the frame, and is never higher or
\* wider than the shape
ClippedInFrame(shape, r) ==
    /\ ~RectEmpty(r) =>
          /\ 0 <= r.y1 /\ r.y1 <= r.y2 /\ r.y2 <= FrameH
          /\ 0 <= r.x1 /\ r.x1 <= r.x2 /\ r.x2 <= FrameW
    /\ r.y2 - r.y1 <= shape[1]
    /\ r.x2 - r.x1 <= shape[2]

\* C27, checked under SpecOverlay: for a transformed sprite of at least
\* 1 x 1 the clipped rectangle, when not empty, lies in the frame with
\* 0 <= y1 <= y2 <= height and 0 <= x1 <= x2 <= width; it is never higher
\* or wider than the sprite, so the crop fits the slice and the call does
\* not raise.
C27_ClippedRectInFrame ==
    (overlay_call.made /\ ShapeNotEmpty(CallShape)) =>
        ClippedInFrame(CallShape, CallClipped) /\ ~error_shown

\* a sprite whose rectangle reaches beyond the frame on two sides and is
\* drawn on what is left of it
C27_Witness ==
    /\ overlay_call.made /\ CallShape[1] >= 1 /\ CallShape[2] >= 1
    /\ ~RectEmpty(CallClipped)
    /\ DestRect(CallShape[1], CallShape[2], overlay_call.x, overlay_call.y).y1 < 0
    /\ DestRect(CallShape[1], CallShape[2], overlay_call.x, overlay_call.y).x2 > FrameW
    /\ frame # frame_before /\ ~error_shown

(***************************************************************************)
(* Claims about the feature check boxes, checked under SpecToggled         *)
(***************************************************************************)
\* the sprites drawn for detection i of the last frame, by feature
DrawnSprites(i) ==
    {<<processed[i].calls[k].feature, processed[i].calls[k].overlay>> :
        k \in 1..Len(processed[i].calls)}

\* the sprite of feature f in the cache that the last frame was drawn with
LoadedSprite(f) ==
    IF f \in DOMAIN process_result.overlays THEN process_result.overlays[f] ELSE None

\* C26, checked under SpecToggled: in every frame a feature is drawn, once
\* and with its cached sprite, exactly when its show flag is True and its
\* sprite is loaded; nothing is drawn for 'eyebrows', the eyes are drawn
\* whatever the eyebrows flag is, and the eye sprite drawn is the variant
\* that the eyebrows flag selects.
C26_DrawnIffShownAndLoaded ==
    process_result.made =>
        \A i \in 1..Len(processed) :
            /\ Len(processed[i].calls) = Cardinality(DrawnSprites(i))
            /\ \A f \in FeatureSet :
                  (\E d \in DrawnSprites(i) : d[1] = f)
                      <=> (process_result.show_status[f] /\ LoadedSprite(f) # None)
            /\ \A d \in DrawnSprites(i) :
                  /\ d[1] \in FeatureSet
                  /\ d[2] = LoadedSprite(d[1])
                  /\ d[1] \in {"right_eye", "left_eye"} =>
                        d[2] = create_overlay(SpriteFiles, d[1],
                                              process_result.show_status["eyebrows"])

\* a frame drawn with the nose box cleared and the eyebrows box ticked:
\* both eyes are drawn, with the eyebrow sprites, and the nose is not
C26_Witness ==
    /\ process_result.made /\ Len(processed) = 1
    /\ process_result.show_status["eyebrows"] /\ ~process_result.show_status["nose"]
    /\ LoadedSprite("nose") # None
    /\ {d[1] : d \in DrawnSprites(1)} = {"right_eye", "left_eye", "mouth"}
    /\ \E d \in DrawnSprites(1) :
          d[1] = "right_eye" /\ d[2] = create_overlay(SpriteFiles, "right_eye", TRUE)

(***************************************************************************)
(* Claims about the sliders, checked under SpecSliders                     *)
(***************************************************************************)
\* the values of a Config, one by one
SettingKeys ==
    ({"size", "x_offset", "y_offset"} \X FeatureSet)
        \cup {<<"eye_spacing_ratio", "">>, <<"eye_adjustment_ratio", "">>}

Setting(cfg, k) ==
    IF k[1] = "size" THEN <<cfg.overlay_sizes[k[2]]>>
    ELSE IF k[1] = "x_offset" THEN <<cfg.offsets[k[2]][1]>>
    ELSE IF k[1] = "y_offset" THEN <<cfg.offsets[k[2]][2]>>
    ELSE IF k[1] = "eye_spacing_ratio" THEN <<cfg.eye_spacing_ratio>>
    ELSE <<cfg.eye_adjustment_ratio>>

\* the values that slider n controls
Controlled(n) ==
    {k \in SettingKeys :
        \/ k[1] = "size" /\ SizeSlider(k[2]) = n
        \/ k[1] = "x_offset" /\ OffsetSliders(k[2])[1] = n
        \/ k[1] = "y_offset" /\ OffsetSliders(k[2])[2] = n
        \/ k[1] = "eye_spacing_ratio" /\ n = "eye_spacing"}

\* C29, checked under SpecSliders: when one slider is moved, _update_config
\* changes only the configuration values which that slider controls; every
\* other value, the default nose offset (0, -20) included, stays as it was.
C29_OnlyOwnValueChanges ==
    [][\A n \in DOMAIN sliders :
          sliders'[n] # sliders[n] =>
              \A k \in SettingKeys \ Controlled(n) : Setting(config', k) = Setting(config, k)]_vars

====
